---- MODULE Spec2Model ----
(***************************************************************************)
(* A model of the ContextPad native backend (src-tauri): the launch        *)
(* router of main.rs, the credential commands of commands/secrets.rs and   *)
(* the filesystem commands of commands/file.rs, with the two window        *)
(* commands of commands/window.rs that interact with the launch router.    *)
(*                                                                         *)
(* Strings the code inspects character by character (arguments, file       *)
(* names, paths) are sequences of one-character strings.                   *)
(***************************************************************************)
EXTENDS Integers, Sequences, FiniteSets, TLC

VARIABLES
    \* ---- launch router and window (main.rs, commands/window.rs)
    phase,      \* "starting" before the setup closure has run, then "running"
    timer,      \* the detached thread spawned by setup
    now,        \* milliseconds since process start
    events,     \* every app.emit call so far, oldest first
    win,        \* the webview window labelled "main"
    nSignals,   \* second-instance signals received so far
    callLog,    \* the calls the most recent handler made, in order
    lastOp      \* the most recent handler, its input and its result


VARIABLES
    \* ---- credential vault (commands/secrets.rs)
    vault,      \* the OS vault: entry name -> stored secret, or NoKey
    vaultOk,    \* whether the vault currently answers requests
    secLast,    \* the most recent credential command and its result
    secPrev     \* the step before it

VARIABLES
    \* ---- directory listing (commands/file.rs, read_directory)
    dirIsDir,    \* whether the path given to read_directory is a directory
    dirChildren, \* the immediate children of that directory
    dirListing,  \* the order fs::read_dir yielded them in, at the last call
    dirResult    \* the result of the last read_directory call

VARIABLES
    \* ---- language detection (commands/file.rs, detect_language_from_path)
    langPath,   \* the path given to the last detect_language_from_path call
    langResult  \* what that call returned

VARIABLES
    \* ---- file contents (commands/file.rs, read_file, write_file, rename_file)
    files,       \* path -> Absent, Directory, Binary or a text content
    lastWritten, \* path -> the content of the last successful write_file to it,
                 \* while nothing else has changed the path since; or NoWrite
    fileLast     \* the most recent file command and its result

launchVars == <<phase, timer, now, events, win, nSignals, callLog, lastOp>>
secretsVars == <<vault, vaultOk, secLast, secPrev>>

dirVars == <<dirIsDir, dirChildren, dirListing, dirResult>>

langVars == <<langPath, langResult>>
fileVars == <<files, lastWritten, fileLast>>

vars == <<launchVars, secretsVars, dirVars, langVars, fileVars>>

notLaunch == <<secretsVars, dirVars, langVars, fileVars>>
notSecrets == <<launchVars, dirVars, langVars, fileVars>>
notDir == <<launchVars, secretsVars, langVars, fileVars>>
notLang == <<launchVars, secretsVars, dirVars, fileVars>>
notFile == <<launchVars, secretsVars, dirVars, langVars>>

(***************************************************************************)
(* Bounds.                                                                 *)
(***************************************************************************)
\* arguments after argument 0 in one launch
MaxArgs == 2
\* second-instance signals in one behaviour
MaxSignals == 1
\* arguments after argument 0 in one launch, where launches interleave with
\* the clock and the window
MaxRouteArgs == 1
\* clock ticks in one behaviour
MaxTicks == 3
\* children of the listed directory
MaxEntries == 3
\* characters in a path given to detect_language_from_path
MaxPathLen == 4

(***************************************************************************)
(* Launch router: src-tauri/src/main.rs                                    *)
(***************************************************************************)
\* the fixed delay of the cold-start timer, in milliseconds
DelayMs == 500

\* granularity of the model's clock: half the delay
TickMs == DelayMs \div 2

\* the arguments a launch can carry
AppArg == <<"/", "p">>
FlagArg == <<"-", "x">>
ArgA == <<"/", "a">>
ArgB == <<"/", "b">>
ArgC == <<"/", "c">>
ArgPool == {FlagArg, ArgA, ArgB, ArgC}

\* the filesystem entries that exist: the executable, two documents, and a
\* file that happens to be named like a flag; ArgB names nothing
ExistingPaths == {AppArg, ArgA, ArgC, FlagArg}

SeqsUpTo(S, n) == UNION {[1..k -> S] : k \in 0..n}

\* argument lists: empty, or argument 0 followed by up to MaxArgs arguments
ArgLists == {<<>>} \cup {<<AppArg>> \o s : s \in SeqsUpTo(ArgPool, MaxArgs)}

RouteArgLists == {<<>>} \cup {<<AppArg>> \o s : s \in SeqsUpTo(ArgPool, MaxRouteArgs)}

\* str::starts_with('-')
StartsWithDash(arg) == Len(arg) > 0 /\ arg[1] = "-"

\* std::path::Path::new(arg).exists()
PathExists(arg) == arg \in ExistingPaths

\* Iterator::skip(1)
Skip1(s) == IF Len(s) = 0 THEN <<>> ELSE Tail(s)

\* .filter(|arg| !arg.starts_with('-')), element by element from the front
RECURSIVE FilterNotFlag(_)
FilterNotFlag(s) ==
    IF s = <<>> THEN <<>>
    ELSE IF ~StartsWithDash(Head(s)) THEN <<Head(s)>> \o FilterNotFlag(Tail(s))
    ELSE FilterNotFlag(Tail(s))

\* .filter(|arg| Path::new(arg).exists()), element by element from the front
RECURSIVE FilterExists(_)
FilterExists(s) ==
    IF s = <<>> THEN <<>>
    ELSE IF PathExists(Head(s)) THEN <<Head(s)>> \o FilterExists(Tail(s))
    ELSE FilterExists(Tail(s))

\* faulty variant: the callback does not check that the path exists
SignalFilePaths_NoExistsCheck(args) == FilterNotFlag(Skip1(args))

\* file_paths of the single-instance callback
SignalFilePaths(args) == FilterExists(FilterNotFlag(Skip1(args)))

\* file_paths of the setup closure
SetupFilePaths(args) == FilterExists(FilterNotFlag(Skip1(args)))

\* the event both paths emit
OpenFiles(paths, via) == [name |-> "open-files", payload |-> paths, via |-> via]

NoTimer == [state |-> "none", paths |-> <<>>, wakeAt |-> 0, firedAt |-> 0]

\* a handler run: its name, its argument list, the file_paths it resolved, and
\* the window and the number of emitted events it started from
Op(op, args, paths) ==
    [op |-> op, args |-> args, paths |-> paths,
     before |-> [win |-> win, nEvents |-> Len(events)]]

LaunchStart ==
    /\ phase = "starting"
    /\ timer = NoTimer
    /\ now = 0
    /\ events = <<>>
    /\ win \in {[exists |-> TRUE, minimized |-> FALSE, focused |-> TRUE],
                [exists |-> TRUE, minimized |-> TRUE, focused |-> FALSE]}
    /\ nSignals = 0
    /\ callLog = <<>>
    /\ lastOp = [op |-> "none", args |-> <<>>, paths |-> <<>>,
                 before |-> [win |-> win, nEvents |-> 0]]

\* window.set_focus()
SetFocus(w) == [w EXCEPT !.focused = TRUE]

\* window.unminimize()
Unminimize(w) == [w EXCEPT !.minimized = FALSE]

\* faulty variant: the window is focused and left minimized
FocusMain_NoUnminimize(w) == IF w.exists THEN SetFocus(w) ELSE w

\* if let Some(window) = app.get_webview_window("main") { set_focus; unminimize }
FocusMain(w) == IF w.exists THEN Unminimize(SetFocus(w)) ELSE w

\* faulty variant: the emit is not guarded
EmitIfAny_Always(evs, file_paths) == Append(evs, OpenFiles(file_paths, "signal"))

\* if !file_paths.is_empty() { let _ = app.emit("open-files", file_paths); }
EmitIfAny(evs, file_paths) ==
    IF file_paths # <<>> THEN Append(evs, OpenFiles(file_paths, "signal")) ELSE evs

FocusCalls(w) == IF w.exists THEN <<"set_focus", "unminimize">> ELSE <<>>

\* the setup closure: resolve the process arguments, spawn the timer thread
Setup(args) ==
    /\ phase = "starting"
    /\ LET file_paths == SetupFilePaths(args) IN
        /\ IF file_paths # <<>>
           THEN /\ timer' = [state |-> "sleeping", paths |-> file_paths,
                             wakeAt |-> now + DelayMs, firedAt |-> 0]
                /\ callLog' = <<"spawn">>
           ELSE /\ timer' = timer
                /\ callLog' = <<>>
        /\ lastOp' = Op("setup", args, file_paths)
    /\ phase' = "running"
    /\ UNCHANGED <<now, events, win, nSignals>>
    /\ UNCHANGED notLaunch

\* std::thread::sleep returns no earlier than the duration asked for
TimerReady_NoSleep == TRUE

TimerReady == now >= timer.wakeAt

\* the spawned thread, after its sleep: app_handle.emit("open-files", file_paths)
TimerFire ==
    /\ timer.state = "sleeping"
    /\ TimerReady
    /\ events' = Append(events, OpenFiles(timer.paths, "timer"))
    /\ timer' = [timer EXCEPT !.state = "fired", !.firedAt = now]
    /\ callLog' = <<"emit">>
    /\ lastOp' = Op("timer", <<>>, timer.paths)
    /\ UNCHANGED <<phase, now, win, nSignals>>
    /\ UNCHANGED notLaunch

\* the single-instance callback, run in the already-running process
SecondInstance(args) ==
    /\ phase = "running"
    /\ nSignals < MaxSignals
    /\ LET file_paths == SignalFilePaths(args) IN
        /\ events' = EmitIfAny(events, file_paths)
        /\ callLog' = (IF file_paths # <<>> THEN <<"emit">> ELSE <<>>)
                        \o FocusCalls(win)
        /\ lastOp' = Op("second_instance", args, file_paths)
    /\ win' = FocusMain(win)
    /\ nSignals' = nSignals + 1
    /\ UNCHANGED <<phase, timer, now>>
    /\ UNCHANGED notLaunch

\* time passes
Tick ==
    /\ phase = "running"
    /\ now < MaxTicks * TickMs
    /\ now' = now + TickMs
    /\ UNCHANGED <<phase, timer, events, win, nSignals, callLog, lastOp>>
    /\ UNCHANGED notLaunch

\* the runtime delivers the launch arguments: to setup in a starting process,
\* to the single-instance callback in a running one
Launch(lists) ==
    \/ \E args \in lists : Setup(args)
    \/ \E args \in lists : SecondInstance(args)

(***************************************************************************)
(* Window commands: src-tauri/src/commands/window.rs                       *)
(***************************************************************************)
\* minimize_window: a minimized window does not hold input focus
MinimizeWindow ==
    /\ phase = "running"
    /\ win.exists
    /\ win' = [win EXCEPT !.minimized = TRUE, !.focused = FALSE]
    /\ callLog' = <<"minimize">>
    /\ lastOp' = Op("minimize_window", <<>>, <<>>)
    /\ UNCHANGED <<phase, timer, now, events, nSignals>>
    /\ UNCHANGED notLaunch

\* close_window: the window labelled "main" is gone
CloseWindow ==
    /\ phase = "running"
    /\ win.exists
    /\ win' = [exists |-> FALSE, minimized |-> FALSE, focused |-> FALSE]
    /\ callLog' = <<"close">>
    /\ lastOp' = Op("close_window", <<>>, <<>>)
    /\ UNCHANGED <<phase, timer, now, events, nSignals>>
    /\ UNCHANGED notLaunch

LaunchIdle ==
    /\ phase = "idle"
    /\ timer = NoTimer
    /\ now = 0
    /\ events = <<>>
    /\ win = [exists |-> TRUE, minimized |-> FALSE, focused |-> TRUE]
    /\ nSignals = 0
    /\ callLog = <<>>
    /\ lastOp = [op |-> "none", args |-> <<>>, paths |-> <<>>,
                 before |-> [win |-> win, nEvents |-> 0]]

NextLaunch ==
    \/ Launch(RouteArgLists)
    \/ TimerFire
    \/ Tick
    \/ MinimizeWindow
    \/ CloseWindow

(***************************************************************************)
(* Credential commands: src-tauri/src/commands/secrets.rs                  *)
(***************************************************************************)
Providers == {"openai", "OpenAI", "invalid"}
Keys == {"sk-1", "sk-2"}
NoKey == "<none>"

\* format!("api_key_{}", provider): the provider exactly as supplied
EntryName(provider) == <<"api_key_", provider>>

\* the entry names Entry::new rejects on this platform
RejectedNames == {EntryName("invalid")}

EntryNames == {EntryName(p) : p \in Providers} \ RejectedNames

Ok(v) == [ok |-> TRUE, value |-> v]
Err(msg) == [ok |-> FALSE, value |-> msg]

\* Entry::new("ContextPad", &format!("api_key_{}", provider))
EntryNew(provider) ==
    IF EntryName(provider) \in RejectedNames
    THEN Err("Failed to create keyring entry")
    ELSE Ok(EntryName(provider))

\* entry.get_password()
GetPassword(name) ==
    IF ~vaultOk THEN Err("platform failure")
    ELSE IF vault[name] = NoKey THEN Err("no entry")
    ELSE Ok(vault[name])

\* faulty variant: the lookup drops the provider's letter case
GetApiKeyResult_FoldsCase(provider) ==
    LET folded == IF provider = "OpenAI" THEN "openai" ELSE provider
        entry == EntryNew(folded) IN
    IF ~entry.ok THEN entry
    ELSE IF GetPassword(entry.value).ok THEN GetPassword(entry.value)
    ELSE Err("API key not found")

\* get_api_key
GetApiKeyResult(provider) ==
    LET entry == EntryNew(provider) IN
    IF ~entry.ok THEN entry
    ELSE IF GetPassword(entry.value).ok THEN GetPassword(entry.value)
    ELSE Err("API key not found")

\* faulty variant: has_api_key passes the retrieval error on
HasApiKeyResult_PropagatesErr(provider) ==
    IF GetApiKeyResult(provider).ok THEN Ok(TRUE) ELSE GetApiKeyResult(provider)

\* has_api_key: match get_api_key(provider) { Ok(_) => Ok(true), Err(_) => Ok(false) }
HasApiKeyResult(provider) ==
    IF GetApiKeyResult(provider).ok THEN Ok(TRUE) ELSE Ok(FALSE)

SecOp(op, provider, result) ==
    [op |-> op, provider |-> provider, result |-> result,
     before |-> [vault |-> vault, vaultOk |-> vaultOk]]

NoSecOp == [op |-> "none", provider |-> "", result |-> Ok(TRUE),
            before |-> [vault |-> [n \in EntryNames |-> NoKey], vaultOk |-> TRUE]]

SecretsStart ==
    /\ vault = [n \in EntryNames |-> NoKey]
    /\ vaultOk = TRUE
    /\ secLast = NoSecOp
    /\ secPrev = NoSecOp

Record(op) == secLast' = op /\ secPrev' = secLast

\* store_api_key
StoreApiKey(provider, key) ==
    LET entry == EntryNew(provider) IN
    /\ IF ~entry.ok
       THEN /\ vault' = vault
            /\ Record(SecOp("store_api_key", provider, entry))
       ELSE IF ~vaultOk
       THEN /\ vault' = vault
            /\ Record(SecOp("store_api_key", provider, Err("Failed to store API key")))
       ELSE /\ vault' = [vault EXCEPT ![entry.value] = key]
            /\ Record(SecOp("store_api_key", provider, Ok("unit")))
    /\ UNCHANGED vaultOk
    /\ UNCHANGED notSecrets

\* get_api_key
GetApiKey(provider) ==
    /\ Record(SecOp("get_api_key", provider, GetApiKeyResult(provider)))
    /\ UNCHANGED <<vault, vaultOk>>
    /\ UNCHANGED notSecrets

\* entry.delete_credential() on a stored credential
VaultWithout(name) == [vault EXCEPT ![name] = NoKey]

\* delete_api_key
DeleteApiKey(provider) ==
    LET entry == EntryNew(provider) IN
    /\ IF ~entry.ok
       THEN /\ vault' = vault
            /\ Record(SecOp("delete_api_key", provider, entry))
       ELSE IF ~vaultOk \/ vault[entry.value] = NoKey
       THEN /\ vault' = vault
            /\ Record(SecOp("delete_api_key", provider, Err("Failed to delete API key")))
       ELSE /\ vault' = VaultWithout(entry.value)
            /\ Record(SecOp("delete_api_key", provider, Ok("unit")))
    /\ UNCHANGED vaultOk
    /\ UNCHANGED notSecrets

\* has_api_key
HasApiKey(provider) ==
    /\ Record(SecOp("has_api_key", provider, HasApiKeyResult(provider)))
    /\ UNCHANGED <<vault, vaultOk>>
    /\ UNCHANGED notSecrets

\* the vault becomes unavailable (locked, service down) or available again
VaultAvailability ==
    /\ vaultOk' = ~vaultOk
    /\ Record(SecOp("vault_availability", "", Ok("unit")))
    /\ UNCHANGED vault
    /\ UNCHANGED notSecrets

NextSecrets ==
    \/ \E p \in Providers, k \in Keys : StoreApiKey(p, k)
    \/ \E p \in Providers : GetApiKey(p)
    \/ \E p \in Providers : DeleteApiKey(p)
    \/ \E p \in Providers : HasApiKey(p)
    \/ VaultAvailability

(***************************************************************************)
(* Characters and strings, as commands/file.rs uses them.                  *)
(***************************************************************************)
\* the code point of a character
Code(ch) ==
    CASE ch = "." -> 46
      [] ch = "/" -> 47
      [] ch = "A" -> 65
      [] ch = "B" -> 66
      [] ch = "C" -> 67
      [] ch = "D" -> 68
      [] ch = "H" -> 72
      [] ch = "M" -> 77
      [] ch = "a" -> 97
      [] ch = "b" -> 98
      [] ch = "c" -> 99
      [] ch = "d" -> 100
      [] ch = "h" -> 104
      [] ch = "m" -> 109

\* char::to_lowercase
LowerChar(ch) ==
    CASE ch = "A" -> "a"
      [] ch = "B" -> "b"
      [] ch = "C" -> "c"
      [] ch = "D" -> "d"
      [] ch = "H" -> "h"
      [] ch = "M" -> "m"
      [] OTHER -> ch

\* str::to_lowercase
ToLowercase(s) == [i \in 1..Len(s) |-> LowerChar(s[i])]

\* Ord::cmp on strings: lexicographic by code point, a proper prefix first
RECURSIVE StrCmp(_, _)
StrCmp(a, b) ==
    IF a = <<>> /\ b = <<>> THEN "Equal"
    ELSE IF a = <<>> THEN "Less"
    ELSE IF b = <<>> THEN "Greater"
    ELSE IF Code(Head(a)) < Code(Head(b)) THEN "Less"
    ELSE IF Code(Head(a)) > Code(Head(b)) THEN "Greater"
    ELSE StrCmp(Tail(a), Tail(b))

(***************************************************************************)
(* read_directory: src-tauri/src/commands/file.rs                          *)
(***************************************************************************)
\* the names a child of the listed directory can have
ChildNames == {<<"a">>, <<"B">>, <<"b">>, <<".", "a">>, <<"a", ".">>}

ChildPool == [name : ChildNames, is_dir : BOOLEAN]

\* directories: at most MaxEntries children, no two with one name
Directories ==
    {S \in SUBSET ChildPool :
        /\ Cardinality(S) <= MaxEntries
        /\ \A x, y \in S : x.name = y.name => x = y}

\* the orders in which fs::read_dir can yield the children
Listings(S) ==
    {s \in [1..Cardinality(S) -> S] : \A i, j \in 1..Cardinality(S) : s[i] = s[j] => i = j}

\* the directory read_directory was given, as PathBuf
DirPath == <<"/", "d">>

\* FileNode { name, path, is_dir, children: None }
FileNode(child) ==
    [name |-> child.name, path |-> DirPath \o <<"/">> \o child.name,
     is_dir |-> child.is_dir, children |-> "None"]

\* file_name.starts_with('.')
IsHidden(name) == Len(name) > 0 /\ name[1] = "."

\* faulty variant: a hidden entry ends the loop
RECURSIVE CollectEntries_BreaksAtHidden(_)
CollectEntries_BreaksAtHidden(listing) ==
    IF listing = <<>> THEN <<>>
    ELSE IF IsHidden(Head(listing).name) THEN <<>>
    ELSE <<FileNode(Head(listing))>> \o CollectEntries_BreaksAtHidden(Tail(listing))

\* for entry in read_dir { if hidden { continue; } entries.push(FileNode {..}) }
RECURSIVE CollectEntries(_)
CollectEntries(listing) ==
    IF listing = <<>> THEN <<>>
    ELSE IF IsHidden(Head(listing).name) THEN CollectEntries(Tail(listing))
    ELSE <<FileNode(Head(listing))>> \o CollectEntries(Tail(listing))

\* faulty variant: names are compared as they are
EntryCmp_CaseSensitive(a, b) ==
    IF a.is_dir /\ ~b.is_dir THEN "Less"
    ELSE IF ~a.is_dir /\ b.is_dir THEN "Greater"
    ELSE StrCmp(a.name, b.name)

\* the closure given to sort_by
EntryCmp(a, b) ==
    IF a.is_dir /\ ~b.is_dir THEN "Less"
    ELSE IF ~a.is_dir /\ b.is_dir THEN "Greater"
    ELSE StrCmp(ToLowercase(a.name), ToLowercase(b.name))

\* one element put into a sorted sequence, after the elements it does not precede
RECURSIVE InsertSorted(_, _)
InsertSorted(sorted, x) ==
    IF sorted = <<>> THEN <<x>>
    ELSE IF EntryCmp(x, Head(sorted)) = "Less" THEN <<x>> \o sorted
    ELSE <<Head(sorted)>> \o InsertSorted(Tail(sorted), x)

\* Vec::sort_by: a stable sort
RECURSIVE SortBy(_)
SortBy(entries) ==
    IF entries = <<>> THEN <<>>
    ELSE InsertSorted(SortBy(SubSeq(entries, 1, Len(entries) - 1)), entries[Len(entries)])

NoDirResult == [ok |-> FALSE, value |-> "not called"]

DirStart ==
    /\ dirIsDir \in BOOLEAN
    /\ dirChildren \in Directories
    /\ dirListing = <<>>
    /\ dirResult = NoDirResult

\* read_directory; failAt is the position at which read_dir yields an error
\* instead of an entry (0: every entry is read)
ReadDirectory(listing, failAt) ==
    /\ dirResult' =
          IF ~dirIsDir THEN Err("Path is not a directory")
          ELSE IF failAt # 0 THEN Err("Failed to read entry")
          ELSE Ok(SortBy(CollectEntries(listing)))
    /\ dirListing' = listing
    /\ UNCHANGED <<dirIsDir, dirChildren>>
    /\ UNCHANGED notDir

NextDir ==
    \E listing \in Listings(dirChildren) :
        \E failAt \in 0..Len(listing) : ReadDirectory(listing, failAt)

(***************************************************************************)
(* detect_language_from_path: src-tauri/src/commands/file.rs               *)
(***************************************************************************)
PathChars == {"m", "d", "M", "D", "c", ".", "/"}

Paths == SeqsUpTo(PathChars, MaxPathLen)

\* the characters of a sequence as one string
RECURSIVE Str(_)
Str(s) == IF s = <<>> THEN "" ELSE Head(s) \o Str(Tail(s))

\* the components of a path, split at '/'; empty components are dropped
RECURSIVE Components(_, _)
Components(path, current) ==
    IF path = <<>> THEN (IF current = <<>> THEN <<>> ELSE <<current>>)
    ELSE IF Head(path) = "/"
         THEN (IF current = <<>> THEN <<>> ELSE <<current>>) \o Components(Tail(path), <<>>)
    ELSE Components(Tail(path), Append(current, Head(path)))

\* Path::components keeps a "." only as the first component of a relative path
NormalComponents(path) ==
    LET all == Components(path, <<>>)
        relative == path # <<>> /\ path[1] # "/" IN
    SelectSeq([i \in 1..Len(all) |-> [c |-> all[i], first |-> i = 1]],
              LAMBDA x : x.c # <<".">> \/ (x.first /\ relative))

\* Option<&OsStr>
None == [some |-> FALSE, v |-> <<>>]
Some(v) == [some |-> TRUE, v |-> v]

\* Path::file_name: the last component, unless it is ".." (or "." or absent)
FileName(path) ==
    LET comps == NormalComponents(path) IN
    IF comps = <<>> THEN None
    ELSE LET last == comps[Len(comps)].c IN
         IF last = <<".", ".">> \/ last = <<".">> THEN None ELSE Some(last)

\* the positions of '.' in a name
DotsOf(name) == {i \in 1..Len(name) : name[i] = "."}

\* Path::extension: what follows the last '.' of the file name, when something
\* precedes that '.'
Extension(path) ==
    LET name == FileName(path).v IN
    IF ~FileName(path).some \/ DotsOf(name) = {} THEN None
    ELSE LET dot == CHOOSE i \in DotsOf(name) : \A j \in DotsOf(name) : j <= i IN
         IF dot = 1 THEN None ELSE Some(SubSeq(name, dot + 1, Len(name)))

\* the match of detect_language_from_path
LanguageOf(extension) ==
    CASE extension \in {"md", "markdown"} -> "markdown"
      [] extension = "txt" -> "text"
      [] extension \in {"json", "jsonc"} -> "json"
      [] extension \in {"yaml", "yml"} -> "yaml"
      [] extension = "csv" -> "csv"
      [] extension \in {"js", "jsx", "mjs", "cjs"} -> "javascript"
      [] extension \in {"ts", "tsx"} -> "typescript"
      [] extension \in {"py", "pyw"} -> "python"
      [] extension = "rs" -> "rust"
      [] extension \in {"html", "htm"} -> "html"
      [] extension \in {"css", "scss", "sass", "less"} -> "css"
      [] extension = "xml" -> "xml"
      [] extension = "toml" -> "toml"
      [] extension \in {"sh", "bash"} -> "shell"
      [] extension \in {"c", "h"} -> "c"
      [] extension \in {"cpp", "cc", "cxx", "hpp"} -> "cpp"
      [] extension = "java" -> "java"
      [] extension = "go" -> "go"
      [] extension = "rb" -> "ruby"
      [] extension = "php" -> "php"
      [] extension = "swift" -> "swift"
      [] extension \in {"kt", "kts"} -> "kotlin"
      [] extension = "sql" -> "sql"
      [] OTHER -> "text"

\* detect_language_from_path: the extension, "" when there is none, matched as
\* it is written
DetectLanguageFromPath(path) ==
    LET extension == IF Extension(path).some THEN Str(Extension(path).v) ELSE "" IN
    LanguageOf(extension)

LangStart ==
    /\ langPath \in Paths
    /\ langResult = "not called"

DetectLanguage ==
    /\ langResult = "not called"
    /\ langResult' = DetectLanguageFromPath(langPath)
    /\ UNCHANGED langPath
    /\ UNCHANGED notLang

NextLang == DetectLanguage

(***************************************************************************)
(* read_file, write_file, rename_file: src-tauri/src/commands/file.rs      *)
(***************************************************************************)
FilePaths == {"p", "q"}

\* text contents, as sequences of characters
Contents == {<<>>, <<"x">>, <<"y", "z">>}

Absent == [kind |-> "absent", content |-> <<>>]
Directory == [kind |-> "directory", content |-> <<>>]
\* a file whose bytes are not valid UTF-8
Binary == [kind |-> "binary", content |-> <<>>]
Text(content) == [kind |-> "text", content |-> content]
NoWrite == [written |-> FALSE, content |-> <<>>, over |-> Absent]
\* content was written to a path that held old
Wrote(content, old) == [written |-> TRUE, content |-> content, over |-> old]

IsText(f) == f.kind = "text"

\* fs::read_to_string
ReadToString(path) ==
    IF files[path] = Absent THEN Err("not found")
    ELSE IF files[path] = Directory THEN Err("is a directory")
    ELSE IF files[path] = Binary THEN Err("stream did not contain valid UTF-8")
    ELSE Ok(files[path].content)

\* faulty variant: the file is opened for appending
Written_Appends(old, content) ==
    IF IsText(old) THEN Text(old.content \o content) ELSE Text(content)

\* what fs::write leaves in a file that held old: content, and nothing of old
Written(old, content) == Text(content)

FileOp(op, path, result) == [op |-> op, path |-> path, result |-> result]

FileStart ==
    /\ files \in [FilePaths -> {Absent, Directory, Binary} \cup {Text(c) : c \in Contents}]
    /\ lastWritten = [f \in FilePaths |-> NoWrite]
    /\ fileLast = FileOp("none", "", Ok("unit"))

\* read_file
ReadFile(path) ==
    /\ fileLast' = FileOp("read_file", path, ReadToString(path))
    /\ UNCHANGED <<files, lastWritten>>
    /\ UNCHANGED notFile

\* write_file
WriteFile(path, content) ==
    /\ IF files[path] = Directory
       THEN /\ fileLast' = FileOp("write_file", path, Err("Failed to write file"))
            /\ UNCHANGED <<files, lastWritten>>
       ELSE /\ files' = [files EXCEPT ![path] = Written(files[path], content)]
            /\ lastWritten' = [lastWritten EXCEPT ![path] = Wrote(content, files[path])]
            /\ fileLast' = FileOp("write_file", path, Ok("unit"))
    /\ UNCHANGED notFile

\* rename_file: new_path is replaced by what old_path held; a directory and a
\* file do not replace one another
RenameFile(old_path, new_path) ==
    /\ IF \/ files[old_path] = Absent
          \/ (files[old_path] = Directory) # (files[new_path] = Directory)
                /\ files[new_path] # Absent
       THEN /\ fileLast' = FileOp("rename_file", old_path, Err("Failed to rename file"))
            /\ UNCHANGED <<files, lastWritten>>
       ELSE /\ files' = IF old_path = new_path THEN files
                        ELSE [files EXCEPT ![new_path] = files[old_path],
                                           ![old_path] = Absent]
            /\ lastWritten' = IF old_path = new_path THEN lastWritten
                              ELSE [lastWritten EXCEPT ![new_path] = NoWrite,
                                                       ![old_path] = NoWrite]
            /\ fileLast' = FileOp("rename_file", old_path, Ok("unit"))
    /\ UNCHANGED notFile

NextFile ==
    \/ \E path \in FilePaths : ReadFile(path)
    \/ \E path \in FilePaths, content \in Contents : WriteFile(path, content)
    \/ \E old_path, new_path \in FilePaths : RenameFile(old_path, new_path)

(***************************************************************************)
(* Specifications: one per component, the other components left idle.      *)
(***************************************************************************)
SecretsIdle ==
    /\ vault = [n \in EntryNames |-> NoKey]
    /\ vaultOk = TRUE
    /\ secLast = NoSecOp
    /\ secPrev = NoSecOp

DirIdle ==
    /\ dirIsDir = TRUE
    /\ dirChildren = {}
    /\ dirListing = <<>>
    /\ dirResult = NoDirResult

LangIdle ==
    /\ langPath = <<>>
    /\ langResult = "not called"

FileIdle ==
    /\ files = [f \in FilePaths |-> Absent]
    /\ lastWritten = [f \in FilePaths |-> NoWrite]
    /\ fileLast = FileOp("none", "", Ok("unit"))

InitLaunch == LaunchStart /\ SecretsIdle /\ DirIdle /\ LangIdle /\ FileIdle

SpecLaunch == InitLaunch /\ [][NextLaunch]_vars

\* the runtime runs setup, the clock advances, and the spawned thread is scheduled
SpecLaunchLive ==
    /\ InitLaunch
    /\ [][NextLaunch]_vars
    /\ WF_vars(\E args \in RouteArgLists : Setup(args))
    /\ WF_vars(Tick)
    /\ WF_vars(TimerFire)

\* launches alone, with longer argument lists
NextArgs == Launch(ArgLists)

SpecArgs == InitLaunch /\ [][NextArgs]_vars

InitSecrets == SecretsStart /\ LaunchIdle /\ DirIdle /\ LangIdle /\ FileIdle

SpecSecrets == InitSecrets /\ [][NextSecrets]_vars

InitDir == DirStart /\ LaunchIdle /\ SecretsIdle /\ LangIdle /\ FileIdle

SpecDir == InitDir /\ [][NextDir]_vars

InitLang == LangStart /\ LaunchIdle /\ SecretsIdle /\ DirIdle /\ FileIdle

SpecLang == InitLang /\ [][NextLang]_vars

InitFile == FileStart /\ LaunchIdle /\ SecretsIdle /\ DirIdle /\ LangIdle

SpecFile == InitFile /\ [][NextFile]_vars

(***************************************************************************)
(* Claims about the launch router.                                         *)
(***************************************************************************)
Last(s) == s[Len(s)]

\* the positions after argument 0 whose argument is no flag and names an
\* existing entry
KeptIndexes(args) ==
    {j \in 2..Len(args) :
        /\ ~(Len(args[j]) > 0 /\ args[j][1] = "-")
        /\ args[j] \in ExistingPaths}

\* the i-th smallest element of a set of numbers
NthOf(S, i) == CHOOSE j \in S : Cardinality({k \in S : k < j}) = i - 1

\* paths is exactly the subsequence of args at the kept positions
IsKeptSubsequence(args, paths) ==
    /\ Len(paths) = Cardinality(KeptIndexes(args))
    /\ \A i \in 1..Len(paths) : paths[i] = args[NthOf(KeptIndexes(args), i)]

\* C1: for every launch argument list, on cold start and on a second-instance
\* signal alike, the resolved paths are exactly the arguments after argument 0
\* that do not begin with '-' and that exist, in argument order, duplicates kept.
C1_ResolvedPaths ==
    lastOp.op \in {"setup", "second_instance"}
        => IsKeptSubsequence(lastOp.args, lastOp.paths)

\* a signal whose flag is dropped and whose existing path is kept, after a cold
\* start that kept a duplicated path twice
C1_Witness ==
    /\ timer.paths = <<ArgC, ArgC>>
    /\ lastOp.op = "second_instance"
    /\ lastOp.args = <<AppArg, FlagArg, ArgA>>
    /\ lastOp.paths = <<ArgA>>

\* C2: a second-instance signal with at least one valid path emits "open-files"
\* with the resolved paths at once, as the handler's first call and without a
\* timer, and then focuses and unminimizes the main window.
C2_SignalEmitsThenFocuses ==
    (lastOp.op = "second_instance" /\ lastOp.paths # <<>>)
        => /\ Len(events) = lastOp.before.nEvents + 1
           /\ Last(events) = [name |-> "open-files", payload |-> lastOp.paths,
                              via |-> "signal"]
           /\ callLog # <<>> /\ callLog[1] = "emit"
           /\ lastOp.before.win.exists
                => /\ callLog = <<"emit", "set_focus", "unminimize">>
                   /\ win.exists /\ ~win.minimized /\ win.focused

\* the signal found the window minimized and unfocused
C2_Witness ==
    /\ lastOp.op = "second_instance"
    /\ lastOp.paths = <<ArgA>>
    /\ lastOp.before.win.exists /\ lastOp.before.win.minimized
    /\ ~lastOp.before.win.focused
    /\ ~win.minimized /\ win.focused

TimerEvents == {i \in 1..Len(events) : events[i].via = "timer"}

\* what holds of the cold-start timer in every state
ColdStartSafe ==
    /\ Cardinality(TimerEvents) = (IF timer.state = "fired" THEN 1 ELSE 0)
    /\ timer.state # "none" => timer.paths # <<>> /\ timer.wakeAt = DelayMs
    /\ timer.state = "fired"
        => /\ \A i \in TimerEvents : events[i].payload = timer.paths
           /\ timer.firedAt >= DelayMs
    /\ lastOp.op = "setup"
        => /\ (lastOp.paths = <<>>) <=> (timer.state = "none")
           /\ lastOp.paths # <<>> => timer.paths = lastOp.paths
    /\ phase = "starting" => timer.state = "none"

\* C3: on cold start with a non-empty resolved path set exactly one "open-files"
\* event with that whole set is eventually emitted, not before the 500 ms delay
\* and never cancelled, whatever happens to the window; with an empty set no
\* timer is spawned and the cold-start path never emits.
C3_ColdStartTimer ==
    /\ []ColdStartSafe
    /\ [][timer.state = "sleeping"
            => timer'.state \in {"sleeping", "fired"} /\ timer'.paths = timer.paths]_vars
    /\ [][timer.state = "fired" => timer' = timer]_vars
    /\ [][(phase = "running" /\ timer.state = "none") => timer'.state = "none"]_vars
    /\ (timer.state = "sleeping") ~> (timer.state = "fired")

\* the timer fired after the window had been closed
C3_Witness ==
    /\ lastOp.op = "timer"
    /\ ~lastOp.before.win.exists
    /\ timer.state = "fired"
    /\ Len(events) = 1 /\ events[1].payload = <<ArgC>>

\* C10: a second-instance signal that resolves to no path emits nothing, so no
\* "open-files" event ever carries an empty list, and still focuses and
\* unminimizes the main window when it exists.
C10_NoPathsStillFocuses ==
    /\ \A i \in 1..Len(events) : events[i].payload # <<>>
    /\ (lastOp.op = "second_instance" /\ lastOp.paths = <<>>)
        => /\ Len(events) = lastOp.before.nEvents
           /\ lastOp.before.win.exists
                => /\ callLog = <<"set_focus", "unminimize">>
                   /\ win.exists /\ ~win.minimized /\ win.focused
           /\ ~lastOp.before.win.exists => callLog = <<>> /\ win = lastOp.before.win

\* a signal carrying only a flag found the window minimized and raised it
C10_Witness ==
    /\ lastOp.op = "second_instance"
    /\ lastOp.args = <<AppArg, FlagArg>>
    /\ lastOp.paths = <<>>
    /\ lastOp.before.win.minimized
    /\ ~win.minimized /\ win.focused
    /\ events = <<>>

(***************************************************************************)
(* Claims about the credential commands.                                   *)
(***************************************************************************)
\* has_api_key(p) ran right after a successful command op on the same provider
HasRightAfter(op) ==
    /\ secLast.op = "has_api_key"
    /\ secPrev.op = op
    /\ secPrev.result.ok
    /\ secPrev.provider = secLast.provider

\* C4: has_api_key(provider) returns true immediately after a successful
\* store_api_key(provider, key) and false immediately after a successful
\* delete_api_key(provider), whatever credential operations came before.
C4_HasAfterStoreAndDelete ==
    /\ HasRightAfter("store_api_key") => secLast.result = Ok(TRUE)
    /\ HasRightAfter("delete_api_key") => secLast.result = Ok(FALSE)

\* has_api_key("openai") answered false right after deleting that key while the
\* key stored under "OpenAI" was still in the vault
C4_Witness ==
    /\ HasRightAfter("delete_api_key")
    /\ secLast.provider = "openai"
    /\ secLast.result = Ok(FALSE)
    /\ vault[EntryName("OpenAI")] # NoKey

\* C9: has_api_key never returns an error; it returns true exactly when the
\* secret can be retrieved and false when the key is absent, the entry cannot
\* be created or the vault fails; and it leaves the vault as it was.
C9_HasNeverFails ==
    secLast.op = "has_api_key"
        => /\ secLast.result.ok
           /\ secLast.result.value \in BOOLEAN
           /\ secLast.result.value
                <=> /\ EntryName(secLast.provider) \notin RejectedNames
                    /\ secLast.before.vaultOk
                    /\ secLast.before.vault[EntryName(secLast.provider)] # NoKey
           /\ vault = secLast.before.vault

\* has_api_key answered false for a stored key because the vault was failing
C9_Witness ==
    /\ secLast.op = "has_api_key"
    /\ secLast.provider = "openai"
    /\ secLast.result = Ok(FALSE)
    /\ ~vaultOk
    /\ vault[EntryName("openai")] = "sk-1"

(***************************************************************************)
(* Claims about read_directory.                                            *)
(***************************************************************************)
\* a is at most b in case-insensitive order: equal up to letter case, a proper
\* prefix, or smaller at the first position where the lowercased names differ
LowerLeq(a, b) ==
    LET la == ToLowercase(a)
        lb == ToLowercase(b)
        m == IF Len(la) < Len(lb) THEN Len(la) ELSE Len(lb)
        diff == {k \in 1..m : la[k] # lb[k]} IN
    IF diff = {} THEN Len(la) <= Len(lb)
    ELSE LET k == CHOOSE k \in diff : \A l \in diff : k <= l IN
         Code(la[k]) < Code(lb[k])

\* C5: a successful read_directory returns every directory before every file,
\* and within the directories and within the files the names are
\* non-decreasing in case-insensitive order.
C5_DirectoriesFirstThenByName ==
    dirResult.ok
        => \A i, j \in 1..Len(dirResult.value) :
              i < j
                => LET a == dirResult.value[i]
                       b == dirResult.value[j] IN
                   /\ ~(~a.is_dir /\ b.is_dir)
                   /\ a.is_dir = b.is_dir => LowerLeq(a.name, b.name)

\* files "a" and "B" and directory "b", yielded as B, a, b, come back as b, a, B
C5_Witness ==
    /\ dirResult.ok
    /\ [i \in 1..Len(dirListing) |-> dirListing[i].name] = <<<<"B">>, <<"a">>, <<"b">>>>
    /\ [i \in 1..Len(dirResult.value) |-> dirResult.value[i].name]
         = <<<<"b">>, <<"a">>, <<"B">>>>
    /\ dirResult.value[1].is_dir /\ ~dirResult.value[2].is_dir

\* C6: a successful read_directory returns no entry whose name starts with '.',
\* and returns every immediate child whose name does not start with '.'
\* exactly once, and nothing else.
C6_HiddenSkippedOthersOnce ==
    dirResult.ok
        => /\ \A i \in 1..Len(dirResult.value) :
                /\ dirResult.value[i].name[1] # "."
                /\ \E c \in dirChildren :
                      /\ c.name = dirResult.value[i].name
                      /\ c.is_dir = dirResult.value[i].is_dir
           /\ \A c \in dirChildren :
                c.name[1] # "."
                  => Cardinality({i \in 1..Len(dirResult.value) :
                                     dirResult.value[i].name = c.name}) = 1

\* the hidden ".a" was yielded first and left out; "a." and "a" were returned
C6_Witness ==
    /\ dirResult.ok
    /\ Len(dirListing) = 3
    /\ dirListing[1].name = <<".", "a">>
    /\ Len(dirResult.value) = 2
    /\ dirResult.value[1].name = <<"a">>
    /\ dirResult.value[2].name = <<"a", ".">>

(***************************************************************************)
(* Claims about detect_language_from_path.                                 *)
(***************************************************************************)
\* the tag of the fixed table for an extension taken without regard to case
TagIgnoringCase(path) ==
    IF Extension(path).some THEN LanguageOf(Str(ToLowercase(Extension(path).v)))
    ELSE "text"

\* C7: detect_language_from_path never fails and its result is the table's tag
\* for the path's extension compared case-insensitively, so that paths whose
\* extensions differ only in letter case get the same tag; an extension that
\* is missing or not in the table gives "text".
C7_ExtensionCaseInsensitive ==
    langResult # "not called" => langResult = TagIgnoringCase(langPath)

(***************************************************************************)
(* Claims about write_file and read_file.                                  *)
(***************************************************************************)
\* C8: a successful write_file(p, c) followed by read_file(p), with no other
\* write to p in between, returns exactly c, whatever p held before.
C8_WriteThenRead ==
    (fileLast.op = "read_file" /\ lastWritten[fileLast.path].written)
        => /\ fileLast.result.ok
           /\ fileLast.result.value = lastWritten[fileLast.path].content

\* "x" was written over the longer "yz" in p, then q was created, then p was
\* read back
C8_Witness ==
    /\ fileLast.op = "read_file"
    /\ fileLast.path = "p"
    /\ lastWritten["p"] = Wrote(<<"x">>, Text(<<"y", "z">>))
    /\ lastWritten["q"] = Wrote(<<"y", "z">>, Absent)
    /\ fileLast.result = Ok(<<"x">>)

====
